---- MODULE Spec2Model ----
(***************************************************************************)
(* Asynchronous document-generation workflow of the handbook application:  *)
(* the /api/proxy route (POST submission, job status, processJob, the      *)
(* retention timer), the Supabase job store helpers and the status         *)
(* requests of the client pages.                                           *)
(*                                                                         *)
(* Spec is the server with its requests; PageSpec and HungSpec put the     *)
(* home page and the document page (fetchJob, handleMessageSubmit,         *)
(* pollJobStatus) in front of it; SweepSpec follows the retention timer    *)
(* over several firings.                                                   *)
(*                                                                         *)
(* Time is counted in minutes.  Strings that the code inspects character   *)
(* by character (response bodies) are sequences of one-character strings;  *)
(* strings it only stores or compares are TLA+ strings.  A nullable column *)
(* or an optional field is None (<<>>) or Some(v) (<<v>>).                 *)
(***************************************************************************)
EXTENDS Integers, Sequences, FiniteSets, TLC

\* ------------------------------------------------------------------ bounds
MaxJobs == 2          \* submissions (and so job records) in one run
MaxTimerFires == 1    \* firings of the interval timer in one run
MaxSweepFires == 3    \* the same, in the specification of the sweeper
BootTime == 20000     \* Date.now() when the route module is loaded

\* ------------------------------------------------------- program constants
TICK == 15                        \* setInterval period, minutes
CLEANUP_INTERVAL == 24 * 60       \* minutes
daysToKeep == 7
RetentionMinutes == daysToKeep * 24 * 60

JobIds == 1 .. MaxJobs

None == <<>>
Some(v) == <<v>>

\* ------------------------------------------------------------ html values
\* A document: raw text (characters) or one of the two templates.
TextDoc(t) == [kind |-> "text", text |-> t, prompt |-> "", error |-> "", at |-> 0]

createFallbackHtml(prompt, errorMessage, t) ==
  [kind |-> "fallback", text |-> <<>>, prompt |-> prompt, error |-> errorMessage, at |-> t]

createLoadingHtml(prompt, t) ==
  [kind |-> "loading", text |-> <<>>, prompt |-> prompt, error |-> "", at |-> t]

\* The templates always render text around their holes; a raw text is empty
\* exactly when it has no characters.
DocIsEmpty(d) == d.kind = "text" /\ d.text = <<>>

\* JavaScript truthiness of an optional string value (x || fallback).
Truthy(opt) == opt # None /\ ~DocIsEmpty(opt[1])
TruthyStr(opt) == opt # None /\ opt[1] # ""

OrElse(opt, dflt) == IF Truthy(opt) THEN opt[1] ELSE dflt
OrElseStr(opt, dflt) == IF TruthyStr(opt) THEN opt[1] ELSE dflt

\* ------------------------------------------------- external response bodies
BodyJsonDoc == <<"{", "\"", "h", "t", "m", "l", "\"", ":", "\"", "<", "b", ">", "\"", ",", "\"", "p", "r", "o", "j", "e", "c", "t", "I", "d", "\"", ":", "\"", "p", "1", "\"", "}">>
BodyJsonNoHtml == <<"{", "\"", "a", "\"", ":", "1", "}">>
BodyJsonNumber == <<"4", "2">>
BodyJsonNull == <<"n", "u", "l", "l">>
BodyMarkup == <<"<", "p", ">", "h", "i", "<", "/", "p", ">">>
BodyDoctype == <<" ", "<", "!", "D", "O", "C", "T", "Y", "P", "E", " ", "h", "t", "m", "l">>
BodyHtmlTag == <<"<", "h", "t", "m", "l">>
BodyPlain == <<"h", "e", "l", "l", "o">>
BodyOnlyLt == <<"a", "<", "b">>
DocHtml == <<"<", "b", ">">>

Bodies == {BodyJsonDoc, BodyJsonNoHtml, BodyJsonNumber, BodyJsonNull, BodyMarkup,
           BodyDoctype, BodyHtmlTag, BodyPlain, BodyOnlyLt}

\* JSON.parse on the bodies above: the parsed value, or a SyntaxError.
\* A value is its type and, for an object, its html and projectId members
\* (None when the member is missing, i.e. undefined).
JsonValue(type, html, projectId) == [type |-> type, html |-> html, projectId |-> projectId]

JSONParse(text) ==
  CASE text = BodyJsonDoc    -> [ok |-> TRUE, val |-> JsonValue("object", Some(TextDoc(DocHtml)), Some("p1"))]
    [] text = BodyJsonNoHtml -> [ok |-> TRUE, val |-> JsonValue("object", None, None)]
    [] text = BodyJsonNumber -> [ok |-> TRUE, val |-> JsonValue("number", None, None)]
    [] text = BodyJsonNull   -> [ok |-> TRUE, val |-> JsonValue("null", None, None)]
    [] OTHER                 -> [ok |-> FALSE, val |-> JsonValue("undefined", None, None)]

\* ------------------------------------------------------------ isHtmlContent
IsSpace(c) == c \in {" ", "\t", "\n", "\r"}

RECURSIVE TrimStart(_)
TrimStart(s) == IF s # <<>> /\ IsSpace(Head(s)) THEN TrimStart(Tail(s)) ELSE s

RECURSIVE TrimEnd(_)
TrimEnd(s) ==
  IF s # <<>> /\ IsSpace(s[Len(s)]) THEN TrimEnd(SubSeq(s, 1, Len(s) - 1)) ELSE s

trim(s) == TrimEnd(TrimStart(s))

startsWith(s, prefix) == Len(s) >= Len(prefix) /\ SubSeq(s, 1, Len(prefix)) = prefix

includes(s, c) == \E i \in 1 .. Len(s) : s[i] = c

DOCTYPE_PREFIX == <<"<", "!", "D", "O", "C", "T", "Y", "P", "E">>
HTML_PREFIX == <<"<", "h", "t", "m", "l">>

isHtmlContent(text) ==
  \/ startsWith(trim(text), DOCTYPE_PREFIX)
  \/ startsWith(trim(text), HTML_PREFIX)
  \/ (includes(text, "<") /\ includes(text, ">"))

\* ------------------------------------------------------------- job records
NoJob == [status |-> "none"]

\* insert({ prompt }): every other column takes its table default.
NewJob(id, prompt, t) ==
  [job_id |-> id, status |-> "pending", prompt |-> prompt, html |-> None,
   project_id |-> None, error |-> None, result |-> None,
   created_at |-> t, updated_at |-> t]

Stored(st, id) == id \in DOMAIN st /\ st[id] # NoJob

\* select('*').eq('job_id', jobId).single(): the row, or null when the
\* request fails or no row matches.
getDocumentJob(st, id, ok) == IF ok /\ Stored(st, id) THEN Some(st[id]) ELSE None

\* update(updates).eq('job_id', jobId): sets the columns named in updates on
\* the matching row; no row, or a failed request, changes nothing.
Merge(rec, updates) ==
  [f \in DOMAIN rec |-> IF f \in DOMAIN updates THEN updates[f] ELSE rec[f]]

\* upsert({ job_id: jobId, ...updates }) in place of update: a missing row
\* is inserted.
updateDocumentJob_Upserts(st, id, updates, ok) ==
  IF ~ok THEN st
  ELSE IF Stored(st, id) THEN [st EXCEPT ![id] = Merge(@, updates)]
  ELSE [st EXCEPT ![id] = Merge(NewJob(id, "", 0), updates)]

\* update(updates) without its .eq('job_id', jobId) filter: every row is updated.
updateDocumentJob_NoFilter(st, id, updates, ok) ==
  IF ok /\ Stored(st, id)
    THEN [k \in DOMAIN st |-> IF st[k] # NoJob THEN Merge(st[k], updates) ELSE st[k]]
    ELSE st

updateDocumentJob(st, id, updates, ok) ==
  IF ok /\ Stored(st, id) THEN [st EXCEPT ![id] = Merge(@, updates)] ELSE st

\* delete().lt('created_at', cutoff)
DeleteOlderThan(st, cutoff, ok) ==
  [id \in DOMAIN st |->
     IF ok /\ st[id] # NoJob /\ st[id].created_at < cutoff THEN NoJob ELSE st[id]]

\* ------------------------------------------------------------------- state
VARIABLES
  now,              \* Date.now()
  timerFires,       \* firings of the interval timer so far
  store,            \* document_jobs: job id -> row or NoJob
  subPc,            \* POST submission s: idle, creating, created, createFailed, responded
  subPrompt,        \* its prompt (after the "No prompt provided" default)
  subResp,          \* the JSON it answered with
  started,          \* how many times processJob was called for a job id
  procPc,           \* processJob(j): idle, markProcessing, fetching, writeCompleted,
                    \*   reread, writeFailed, done
  procErr,          \* the error caught by its catch block
  procUpd,          \* the update it is about to send
  qResp,            \* the answer to the ?jobId= request made in the last step
  lastCleanupTime,
  sweeps,           \* cutoffs of the cleanupOldJobs calls in flight
  cliPc,            \* the page's handler call that made submission s: none,
                    \*   submitted, fallback, redirected, loaded, notFound,
                    \*   direct, polling, sleeping, done
  attempts,         \* `attempts` of its pollJobStatus
  shown,            \* what that call has put on the page (a message, a document)
  pageHtml,         \* documentJob.html of the document page; None before it loads
  messages,         \* the document page's chat list
  currentMessages   \* newMessages of the handleMessageSubmit call of submission s

vars == <<now, timerFires, store, subPc, subPrompt, subResp, started, procPc,
          procErr, procUpd, qResp, lastCleanupTime, sweeps,
          cliPc, attempts, shown, pageHtml, messages, currentMessages>>

serverVars == <<now, timerFires, store, subPc, subPrompt, subResp, started, procPc,
                procErr, procUpd, qResp, lastCleanupTime, sweeps>>
clientVars == <<cliPc, attempts, shown, pageHtml, messages, currentMessages>>
chatVars == <<messages, currentMessages>>

subVars == <<subPc, subPrompt, subResp>>
procVars == <<procPc, procErr, procUpd>>
timerVars == <<now, timerFires, lastCleanupTime, sweeps>>

NoResp == [http |-> 0]
NoUpd == [status |-> "none"]
NoQuery == [method |-> "none", id |-> 0, resp |-> NoResp]

Init ==
  /\ now = BootTime
  /\ timerFires = 0
  /\ store = [j \in JobIds |-> NoJob]
  /\ subPc = [s \in JobIds |-> "idle"]
  /\ subPrompt = [s \in JobIds |-> ""]
  /\ subResp = [s \in JobIds |-> NoResp]
  /\ started = [j \in JobIds |-> 0]
  /\ procPc = [j \in JobIds |-> "idle"]
  /\ procErr = [j \in JobIds |-> None]
  /\ procUpd = [j \in JobIds |-> NoUpd]
  /\ qResp = NoQuery
  /\ lastCleanupTime = 0
  /\ sweeps = {}
  /\ cliPc = [s \in JobIds |-> "none"]
  /\ attempts = [s \in JobIds |-> 0]
  /\ shown = [s \in JobIds |-> ""]
  /\ pageHtml = None
  /\ messages = <<>>
  /\ currentMessages = [s \in JobIds |-> <<>>]

\* --------------------------------------------------------- POST: submission
PromptInputs == {"X"}            \* data.prompt; "" stands for a missing one

PromptOrDefault(p) == IF p # "" THEN p ELSE "No prompt provided"

\* The request carries no jobId: the body is read and createDocumentJob is called.
\* Submissions take their slots in order (the slot is only a label).
PostReceive(s, p) ==
  /\ subPc[s] = "idle"
  /\ \A r \in JobIds : r < s => subPc[r] # "idle"
  /\ subPc' = [subPc EXCEPT ![s] = "creating"]
  /\ subPrompt' = [subPrompt EXCEPT ![s] = PromptOrDefault(p)]
  /\ qResp' = NoQuery
  /\ UNCHANGED <<store, subResp, started, procVars, timerVars>>

\* The insert is executed by the store, or fails.
PostCreate(s, ok) ==
  /\ subPc[s] = "creating"
  /\ IF ok
       THEN /\ store' = [store EXCEPT ![s] = NewJob(s, subPrompt[s], now)]
            /\ subPc' = [subPc EXCEPT ![s] = "created"]
       ELSE /\ store' = store
            /\ subPc' = [subPc EXCEPT ![s] = "createFailed"]
  /\ qResp' = NoQuery
  /\ UNCHANGED <<subPrompt, subResp, started, procVars, timerVars>>

SubmitOkResponse(id, prompt, t) ==
  [http |-> 200, jobId |-> Some(id), status |-> Some("pending"),
   message |-> Some("Your request is being processed"),
   html |-> Some(createLoadingHtml(prompt, t)),
   projectId |-> Some("job-" \o ToString(id)), error |-> None]

SubmitErrorResponse(message, t) ==
  [http |-> 200, jobId |-> None, status |-> None, message |-> None,
   html |-> Some(createFallbackHtml("Error processing your request", "", t)),
   projectId |-> Some("error-" \o ToString(t)), error |-> Some(message)]

\* processJob(job.job_id, data) runs up to its first await: the update that
\* marks the job processing is sent.
StartProcessJob(j) ==
  /\ started' = [started EXCEPT ![j] = @ + 1]
  /\ procPc' = [procPc EXCEPT ![j] = "markProcessing"]

\* POST without its `if (!job) throw`: processJob is started whether or not
\* the insert returned a record.
PostRespond_NoNullCheck(s) ==
  /\ subPc[s] \in {"created", "createFailed"}
  /\ StartProcessJob(s)
  /\ subResp' = [subResp EXCEPT ![s] =
                   IF subPc[s] = "created"
                     THEN SubmitOkResponse(s, subPrompt[s], now)
                     ELSE SubmitErrorResponse("Failed to create job record", now)]
  /\ subPc' = [subPc EXCEPT ![s] = "responded"]
  /\ qResp' = NoQuery
  /\ UNCHANGED <<store, subPrompt, procErr, procUpd, now, timerFires, lastCleanupTime,
                 sweeps>>

\* POST with `await processJob(job.job_id, data)`: the handler starts
\* processJob and answers only once it has returned.
PostRespond_AwaitsProcessJob(s) ==
  /\ subPc[s] \in {"created", "createFailed"}
  /\ IF subPc[s] = "created" /\ procPc[s] = "idle"
       THEN /\ StartProcessJob(s)
            /\ UNCHANGED <<subPc, subResp>>
     ELSE IF subPc[s] = "created"
       THEN /\ procPc[s] = "done"
            /\ subResp' = [subResp EXCEPT ![s] = SubmitOkResponse(s, subPrompt[s], now)]
            /\ subPc' = [subPc EXCEPT ![s] = "responded"]
            /\ UNCHANGED <<started, procPc>>
     ELSE /\ subResp' = [subResp EXCEPT ![s] =
                           SubmitErrorResponse("Failed to create job record", now)]
          /\ subPc' = [subPc EXCEPT ![s] = "responded"]
          /\ UNCHANGED <<started, procPc>>
  /\ qResp' = NoQuery
  /\ UNCHANGED <<store, subPrompt, procErr, procUpd, now, timerFires, lastCleanupTime,
                 sweeps>>

\* createDocumentJob has returned: with a record, processJob is started (not
\* awaited) and the job id is answered; with null, the catch block answers.
PostRespond(s) ==
  /\ subPc[s] \in {"created", "createFailed"}
  /\ IF subPc[s] = "created"
       THEN /\ StartProcessJob(s)
            /\ subResp' = [subResp EXCEPT ![s] = SubmitOkResponse(s, subPrompt[s], now)]
       ELSE /\ UNCHANGED <<started, procPc>>
            /\ subResp' = [subResp EXCEPT ![s] =
                             SubmitErrorResponse("Failed to create job record", now)]
  /\ subPc' = [subPc EXCEPT ![s] = "responded"]
  /\ qResp' = NoQuery
  /\ UNCHANGED <<store, subPrompt, procErr, procUpd, timerVars>>

\* -------------------------------------------------------------- processJob
\* What `await fetch(webhook)` produces: a rejection, or a response with a
\* status and a body.
NetworkError == [kind |-> "reject", status |-> 0, body |-> <<>>]
HttpResponse(status, body) == [kind |-> "response", status |-> status, body |-> body]
ErrorStatuses == {500}
ExtOutcomes ==
  {NetworkError} \cup {HttpResponse(c, <<>>) : c \in ErrorStatuses}
                 \cup {HttpResponse(200, b) : b \in Bodies}

ResponseOk(r) == r.kind = "response" /\ r.status >= 200 /\ r.status <= 299

\* The processing update sent with the request's (missing) prompt.
ProcessingUpdate_ClearsPrompt == [status |-> "processing", prompt |-> ""]

ProcessingUpdate == [status |-> "processing"]

\* { status, html: jsonData.html, project_id: jsonData.projectId, result: jsonData }:
\* a member that is undefined is not sent, so its column is not set.
CompletedJsonUpdate(v) ==
  LET base == [status |-> "completed", result |-> Some(v)]
      withHtml == IF v.html # None THEN base @@ [html |-> v.html] ELSE base
  IN  IF v.projectId # None THEN withHtml @@ [project_id |-> v.projectId] ELSE withHtml

CompletedHtmlUpdate(j, text) ==
  LET pid == "html-" \o ToString(j)
  IN  [status |-> "completed", html |-> Some(TextDoc(text)), project_id |-> Some(pid),
       result |-> Some(JsonValue("object", Some(TextDoc(text)), Some(pid)))]

\* The failed update without the fallback document.
FailedUpdate_NoHtml(j, prompt, errorMessage, t) ==
  [status |-> "failed", error |-> Some(errorMessage),
   project_id |-> Some("error-" \o ToString(j))]

FailedUpdate(j, prompt, errorMessage, t) ==
  LET fallbackHtml == createFallbackHtml(prompt, errorMessage, t)
      pid == "error-" \o ToString(j)
  IN  [status |-> "failed", error |-> Some(errorMessage), html |-> Some(fallbackHtml),
       project_id |-> Some(pid),
       result |-> Some(JsonValue("object", Some(fallbackHtml), Some(pid)))]

\* Reading jsonData.html throws a TypeError when jsonData is null.
MemberReadThrows(v) == v.type = "null"

\* The try block from the fetch result on: the update it sends, or the
\* error it throws to the outer catch.
Interpret(j, r) ==
  IF r.kind = "reject"
    THEN [threw |-> TRUE, error |-> "fetch failed", upd |-> NoUpd]
  ELSE IF ~ResponseOk(r)
    THEN [threw |-> TRUE, upd |-> NoUpd,
          error |-> "Server responded with status: " \o ToString(r.status)]
  ELSE LET parsed == JSONParse(r.body)
       IN  IF parsed.ok /\ ~MemberReadThrows(parsed.val)
             THEN [threw |-> FALSE, error |-> "", upd |-> CompletedJsonUpdate(parsed.val)]
           ELSE IF isHtmlContent(r.body)
             THEN [threw |-> FALSE, error |-> "", upd |-> CompletedHtmlUpdate(j, r.body)]
           ELSE [threw |-> TRUE, error |-> "Invalid response format", upd |-> NoUpd]

\* processJob with `if (!(await updateDocumentJob(...))) throw`: a failed
\* processing update is thrown to the catch block.
ProcMarkProcessing_ThrowsOnFailure(j, ok) ==
  /\ procPc[j] = "markProcessing"
  /\ store' = updateDocumentJob(store, j, ProcessingUpdate, ok)
  /\ IF ok
       THEN /\ procPc' = [procPc EXCEPT ![j] = "fetching"]
            /\ UNCHANGED procErr
       ELSE /\ procPc' = [procPc EXCEPT ![j] = "reread"]
            /\ procErr' = [procErr EXCEPT ![j] = Some("Failed to update job")]
  /\ qResp' = NoQuery
  /\ UNCHANGED <<subPc, subPrompt, subResp, started, procUpd, now, timerFires,
                 lastCleanupTime, sweeps>>

\* The store executes (or fails) the update that marks the job processing;
\* processJob then awaits the webhook.
ProcMarkProcessing(j, ok) ==
  /\ procPc[j] = "markProcessing"
  /\ store' = updateDocumentJob(store, j, ProcessingUpdate, ok)
  /\ procPc' = [procPc EXCEPT ![j] = "fetching"]
  /\ qResp' = NoQuery
  /\ UNCHANGED <<subVars, started, procErr, procUpd, timerVars>>

\* The webhook call settles; processJob runs to its next await: the
\* completed update, or the re-read of the job in the catch block.
ExtRespond(j, r) ==
  /\ procPc[j] = "fetching"
  /\ LET i == Interpret(j, r)
     IN  IF i.threw
           THEN /\ procErr' = [procErr EXCEPT ![j] = Some(i.error)]
                /\ procPc' = [procPc EXCEPT ![j] = "reread"]
                /\ UNCHANGED procUpd
           ELSE /\ procUpd' = [procUpd EXCEPT ![j] = i.upd]
                /\ procPc' = [procPc EXCEPT ![j] = "writeCompleted"]
                /\ UNCHANGED procErr
  /\ qResp' = NoQuery
  /\ UNCHANGED <<store, subVars, started, timerVars>>

\* The completed update with an exception raised after it inside the try
\* block: the catch blocks run although the job is already completed.
ProcWriteCompleted_Rethrows(j, ok) ==
  /\ procPc[j] = "writeCompleted"
  /\ store' = updateDocumentJob(store, j, procUpd[j], ok)
  /\ procPc' = [procPc EXCEPT ![j] = "reread"]
  /\ procErr' = [procErr EXCEPT ![j] = Some("Invalid response format")]
  /\ procUpd' = [procUpd EXCEPT ![j] = NoUpd]
  /\ qResp' = NoQuery
  /\ UNCHANGED <<subPc, subPrompt, subResp, started, now, timerFires, lastCleanupTime,
                 sweeps>>

\* The store executes (or fails) the completed update; processJob returns.
ProcWriteCompleted(j, ok) ==
  /\ procPc[j] = "writeCompleted"
  /\ store' = updateDocumentJob(store, j, procUpd[j], ok)
  /\ procPc' = [procPc EXCEPT ![j] = "done"]
  /\ procUpd' = [procUpd EXCEPT ![j] = NoUpd]
  /\ qResp' = NoQuery
  /\ UNCHANGED <<subVars, started, procErr, timerVars>>

\* catch: getDocumentJob(jobId); with a job, the failed update is sent.
ProcReread(j, ok) ==
  /\ procPc[j] = "reread"
  /\ LET job == getDocumentJob(store, j, ok)
     IN  IF job # None
           THEN /\ procUpd' = [procUpd EXCEPT ![j] =
                                 FailedUpdate(j, job[1].prompt, procErr[j][1], now)]
                /\ procPc' = [procPc EXCEPT ![j] = "writeFailed"]
           ELSE /\ procPc' = [procPc EXCEPT ![j] = "done"]
                /\ UNCHANGED procUpd
  /\ qResp' = NoQuery
  /\ UNCHANGED <<store, subVars, started, procErr, timerVars>>

\* The store executes (or fails) the failed update; processJob returns.
ProcWriteFailed(j, ok) ==
  /\ procPc[j] = "writeFailed"
  /\ store' = updateDocumentJob(store, j, procUpd[j], ok)
  /\ procPc' = [procPc EXCEPT ![j] = "done"]
  /\ procUpd' = [procUpd EXCEPT ![j] = NoUpd]
  /\ qResp' = NoQuery
  /\ UNCHANGED <<subVars, started, procErr, timerVars>>

\* ------------------------------------------------------------ job status
NotFoundResponse ==
  [http |-> 404, status |-> "not_found", error |-> Some("Job not found"),
   html |-> None, projectId |-> None, result |-> None]

JobResponse(j, jobId, t) ==
  IF j.status \in {"pending", "processing"}
    THEN [http |-> 200, status |-> j.status, error |-> None,
          html |-> Some(OrElse(j.html, createLoadingHtml(j.prompt, t))),
          projectId |-> Some(OrElseStr(j.project_id, "pending-" \o ToString(jobId))),
          result |-> None]
  ELSE IF j.status = "failed"
    THEN [http |-> 200, status |-> "failed",
          error |-> Some(OrElseStr(j.error, "Unknown error")),
          html |-> Some(OrElse(j.html,
                     createFallbackHtml(j.prompt, OrElseStr(j.error, "Unknown error"), t))),
          projectId |-> Some(OrElseStr(j.project_id, "failed-" \o ToString(jobId))),
          result |-> None]
  ELSE [http |-> 200, status |-> "completed", error |-> None, html |-> j.html,
        projectId |-> Some(OrElseStr(j.project_id, "completed-" \o ToString(jobId))),
        result |-> j.result]

\* checkJobStatus without its `if (!job)` branch: reading job.status of null
\* throws, and POST's catch block answers 200 with a fallback document.
checkJobStatus_NoNullCheck(job, jobId, t) ==
  IF job = None
    THEN [http |-> 200, status |-> "", error |-> Some("Cannot read properties of null"),
          html |-> Some(createFallbackHtml("Error processing your request", "", t)),
          projectId |-> Some("error-" \o ToString(t)), result |-> None]
  ELSE JobResponse(job[1], jobId, t)

checkJobStatus(job, jobId, t) ==
  IF job = None THEN NotFoundResponse ELSE JobResponse(job[1], jobId, t)

\* The route module exports POST and OPTIONS; a request with any other
\* method is answered 405 without a handler being called.
MethodNotAllowed ==
  [http |-> 405, status |-> "", error |-> None, html |-> None, projectId |-> None,
   result |-> None]

RouteStatus(method, jobId, st, ok, t) ==
  IF method = "POST" THEN checkJobStatus(getDocumentJob(st, jobId, ok), jobId, t)
  ELSE MethodNotAllowed

\* A status request that saves the loading document it computed.
StatusRequest_StoresLoadingHtml(id, ok) ==
  /\ qResp' = [method |-> "POST", id |-> id,
               resp |-> RouteStatus("POST", id, store, ok, now)]
  /\ store' = IF Stored(store, id) /\ store[id].status \in {"pending", "processing"}
                THEN updateDocumentJob(store, id,
                       [html |-> Some(createLoadingHtml(store[id].prompt, now))], ok)
                ELSE store
  /\ UNCHANGED <<subPc, subPrompt, subResp, started, procPc, procErr, procUpd, now,
                 timerFires, lastCleanupTime, sweeps>>

\* POST /api/proxy?jobId=id, for any id; the store read succeeds or fails.
StatusRequest(id, ok) ==
  /\ qResp' = [method |-> "POST", id |-> id,
               resp |-> RouteStatus("POST", id, store, ok, now)]
  /\ UNCHANGED <<store, subVars, started, procVars, timerVars>>

\* checkStatus of the pages' pollJobStatus: fetch(`/api/proxy?jobId=${jobId}`),
\* a GET, for the jobId a submission answered with.
PollMethod == "GET"

ClientPoll(s) ==
  /\ subPc[s] = "responded"
  /\ subResp[s].jobId # None
  /\ LET id == subResp[s].jobId[1]
     IN  qResp' = [method |-> PollMethod, id |-> id,
                   resp |-> RouteStatus(PollMethod, id, store, TRUE, now)]
  /\ UNCHANGED <<store, subVars, started, procVars, timerVars>>

\* ------------------------------------------------------ retention sweeper
\* The interval timer fires d minutes after its last firing (a multiple of
\* its period: d > TICK stands for a firing that follows idle ones).  When
\* more than CLEANUP_INTERVAL has passed since lastCleanupTime the callback
\* calls cleanupOldJobs(): the cutoff is computed and the delete is sent.
\* A submission is answered within one timer period: no firing falls
\* between its insert and its response.
TimerSteps == {TICK, RetentionMinutes + TICK}

TimerFire(d) ==
  /\ \A s \in JobIds : subPc[s] \in {"idle", "responded"}
  /\ timerFires' = timerFires + 1
  /\ now' = now + d
  /\ IF now' - lastCleanupTime > CLEANUP_INTERVAL
       THEN sweeps' = sweeps \cup {now' - RetentionMinutes}
       ELSE UNCHANGED sweeps
  /\ qResp' = NoQuery
  /\ UNCHANGED <<store, subVars, started, procVars, lastCleanupTime>>

\* The store executes the delete (or the request fails) and the callback
\* resumes after its await: lastCleanupTime = Date.now().
SweepFinish(cutoff, ok) ==
  /\ cutoff \in sweeps
  /\ store' = DeleteOlderThan(store, cutoff, ok)
  /\ sweeps' = sweeps \ {cutoff}
  /\ lastCleanupTime' = now
  /\ qResp' = NoQuery
  /\ UNCHANGED <<now, timerFires, subVars, started, procVars>>

\* ------------------------------------------------------------ client pages
\* One browser: the home page makes submission HomeSlot and, on a job id, is
\* replaced by the document page of that job; the document page makes the
\* chat submissions (the other slots).
maxAttempts == 60

HomeSlot == 0
PageJobIds == {HomeSlot} \cup JobIds

MsgUpdated == "Document updated successfully."
MsgCheckError == "Error checking job status"
MsgTimeout == "Request timed out. Please try again."
MsgFailed(error) == "Error: " \o OrElseStr(error, "Unknown error")

UserMessage(content) == [role |-> "user", content |-> content]
AssistantMessage(content) == [role |-> "assistant", content |-> content]

\* setMessages([...currentMessages, { role: 'assistant', content }]) in the
\* call that made submission s: the list is replaced by that call's
\* newMessages with the reply appended.
Reply(s, content) ==
  /\ messages' = Append(currentMessages[s], AssistantMessage(content))
  /\ UNCHANGED currentMessages

\* Home.handleSubmit: a non-blank prompt is posted to /api/proxy.
HomeSubmit(p) ==
  /\ p # ""
  /\ cliPc[HomeSlot] = "none"
  /\ PostReceive(HomeSlot, p)
  /\ cliPc' = [cliPc EXCEPT ![HomeSlot] = "submitted"]
  /\ UNCHANGED <<attempts, shown, pageHtml, chatVars>>

\* handleSubmit without its `if (!initialData.jobId) throw`.
HomeResponse_IgnoresMissingJobId ==
  /\ cliPc[HomeSlot] = "submitted"
  /\ subPc[HomeSlot] = "responded"
  /\ cliPc' = [cliPc EXCEPT ![HomeSlot] = "redirected"]
  /\ UNCHANGED <<attempts, shown, pageHtml, chatVars>>
  /\ UNCHANGED serverVars

\* handleSubmit after its fetch: without a jobId it throws and its catch
\* block shows a fallback document built on the page; with one it navigates
\* to /document/{jobId}.
HomeResponse ==
  /\ cliPc[HomeSlot] = "submitted"
  /\ subPc[HomeSlot] = "responded"
  /\ IF subResp[HomeSlot].http \in 200 .. 299 /\ subResp[HomeSlot].jobId # None
       THEN /\ cliPc' = [cliPc EXCEPT ![HomeSlot] = "redirected"]
            /\ UNCHANGED shown
       ELSE /\ cliPc' = [cliPc EXCEPT ![HomeSlot] = "fallback"]
            /\ shown' = [shown EXCEPT ![HomeSlot] = "fallback"]
  /\ UNCHANGED <<attempts, pageHtml, chatVars>>
  /\ UNCHANGED serverVars

\* DocumentPage's effect fetchJob: one getDocumentJob(jobId) against the store.
fetchJob(ok) ==
  /\ cliPc[HomeSlot] = "redirected"
  /\ LET job == getDocumentJob(store, subResp[HomeSlot].jobId[1], ok)
     IN  IF job # None
           THEN /\ cliPc' = [cliPc EXCEPT ![HomeSlot] = "loaded"]
                /\ pageHtml' = job[1].html
                /\ UNCHANGED shown
           ELSE /\ cliPc' = [cliPc EXCEPT ![HomeSlot] = "notFound"]
                /\ shown' = [shown EXCEPT ![HomeSlot] = "Document not found"]
                /\ UNCHANGED pageHtml
  /\ UNCHANGED <<attempts, chatVars>>
  /\ UNCHANGED serverVars

\* handleMessageSubmit: the form is shown once documentJob is set; a
\* non-blank message is added to the chat list and posted to /api/proxy.
handleMessageSubmit(s, p) ==
  /\ p # ""
  /\ cliPc[HomeSlot] = "loaded"
  /\ cliPc[s] = "none"
  /\ PostReceive(s, p)
  /\ cliPc' = [cliPc EXCEPT ![s] = "submitted"]
  /\ LET newMessages == Append(messages, UserMessage(p))
     IN  /\ messages' = newMessages
         /\ currentMessages' = [currentMessages EXCEPT ![s] = newMessages]
  /\ UNCHANGED <<attempts, shown, pageHtml>>

\* handleMessageSubmit after its fetch: with a jobId, pollJobStatus is called
\* and sends its first status request; without one, data.html is shown as
\* the assistant's message and becomes the page's document.
MessageResponse(s) ==
  /\ cliPc[s] = "submitted"
  /\ subPc[s] = "responded"
  /\ IF subResp[s].http \notin 200 .. 299
       THEN /\ cliPc' = [cliPc EXCEPT ![s] = "done"]
            /\ shown' = [shown EXCEPT ![s] = "Sorry, there was an error processing your request."]
            /\ Reply(s, shown'[s])
            /\ UNCHANGED pageHtml
     ELSE IF subResp[s].jobId # None
       THEN /\ cliPc' = [cliPc EXCEPT ![s] = "polling"]
            /\ UNCHANGED <<shown, pageHtml, chatVars>>
     ELSE /\ cliPc' = [cliPc EXCEPT ![s] = "direct"]
          /\ shown' = [shown EXCEPT ![s] =
                         IF Truthy(subResp[s].html) THEN "data.html"
                         ELSE "Response received without HTML content."]
          /\ Reply(s, shown'[s])
          /\ pageHtml' = IF Truthy(subResp[s].html) THEN subResp[s].html ELSE pageHtml
  /\ UNCHANGED attempts
  /\ UNCHANGED serverVars

\* What fetch(`/api/proxy?jobId=...`) settles with: a rejection, the answer
\* of the route as exported, or the answer of checkJobStatus, the handler
\* the request is written for (its store read succeeding or failing).
FetchRejected ==
  [http |-> 0, status |-> "", error |-> None, html |-> None, projectId |-> None,
   result |-> None]

PollAnswers(id) ==
  {FetchRejected, RouteStatus(PollMethod, id, store, TRUE, now)}
    \cup {checkJobStatus(getDocumentJob(store, id, ok), id, now) : ok \in BOOLEAN}

ResponseNotOk(a) == a.http \notin 200 .. 299

\* checkStatus that goes on polling after a failed request.
PollAnswer_RetriesOnError(s, a, ok) ==
  /\ cliPc[s] = "polling"
  /\ a \in PollAnswers(s)
  /\ cliPc' = [cliPc EXCEPT ![s] = IF ResponseNotOk(a) \/ a.status \notin {"completed", "failed"}
                                     THEN "sleeping" ELSE "done"]
  /\ attempts' = [attempts EXCEPT ![s] = IF cliPc'[s] = "sleeping" THEN @ + 1 ELSE 0]
  /\ shown' = [shown EXCEPT ![s] = IF cliPc'[s] = "done" THEN MsgUpdated ELSE @]
  /\ IF cliPc'[s] = "done" THEN Reply(s, MsgUpdated) ELSE UNCHANGED chatVars
  /\ UNCHANGED pageHtml
  /\ UNCHANGED serverVars

\* pollJobStatus, one turn of its loop from the answer to checkStatus's
\* request on: a failed request or a terminal status ends the loop; on
\* completed the job is read from the store and, if read, becomes the page's
\* document; otherwise attempts is incremented and the 2 s delay starts.
PollAnswer(s, a, ok) ==
  /\ cliPc[s] = "polling"
  /\ a \in PollAnswers(s)
  /\ IF ResponseNotOk(a)
       THEN /\ shown' = [shown EXCEPT ![s] = MsgCheckError]
            /\ Reply(s, MsgCheckError)
            /\ cliPc' = [cliPc EXCEPT ![s] = "done"]
            /\ attempts' = [attempts EXCEPT ![s] = 0]
            /\ UNCHANGED pageHtml
     ELSE IF a.status = "completed"
       THEN LET updatedJob == getDocumentJob(store, s, ok)
            IN  /\ IF updatedJob # None
                     THEN /\ pageHtml' = updatedJob[1].html
                          /\ shown' = [shown EXCEPT ![s] = MsgUpdated]
                          /\ Reply(s, MsgUpdated)
                     ELSE UNCHANGED <<pageHtml, shown, chatVars>>
                /\ cliPc' = [cliPc EXCEPT ![s] = "done"]
                /\ attempts' = [attempts EXCEPT ![s] = 0]
     ELSE IF a.status = "failed"
       THEN /\ shown' = [shown EXCEPT ![s] = MsgFailed(a.error)]
            /\ Reply(s, MsgFailed(a.error))
            /\ cliPc' = [cliPc EXCEPT ![s] = "done"]
            /\ attempts' = [attempts EXCEPT ![s] = 0]
            /\ UNCHANGED pageHtml
     ELSE /\ attempts' = [attempts EXCEPT ![s] = @ + 1]
          /\ cliPc' = [cliPc EXCEPT ![s] = "sleeping"]
          /\ UNCHANGED <<shown, pageHtml, chatVars>>
  /\ UNCHANGED serverVars

\* The loop without its bound.
PollWake_Unbounded(s) ==
  /\ cliPc[s] = "sleeping"
  /\ cliPc' = [cliPc EXCEPT ![s] = "polling"]
  /\ attempts' = [attempts EXCEPT ![s] = IF @ > maxAttempts THEN maxAttempts + 1 ELSE @]
  /\ UNCHANGED <<shown, pageHtml, chatVars>>
  /\ UNCHANGED serverVars

\* The delay is over: `while (attempts < maxAttempts)` sends the next status
\* request, or the loop is left and the timeout message is shown.
PollWake(s) ==
  /\ cliPc[s] = "sleeping"
  /\ IF attempts[s] < maxAttempts
       THEN /\ cliPc' = [cliPc EXCEPT ![s] = "polling"]
            /\ UNCHANGED <<attempts, shown, chatVars>>
       ELSE /\ cliPc' = [cliPc EXCEPT ![s] = "done"]
            /\ attempts' = [attempts EXCEPT ![s] = 0]
            /\ shown' = [shown EXCEPT ![s] = MsgTimeout]
            /\ Reply(s, MsgTimeout)
  /\ UNCHANGED pageHtml
  /\ UNCHANGED serverVars

\* ----------------------------------------------------------- specification
Next ==
  \/ \E s \in JobIds, p \in PromptInputs : PostReceive(s, p) /\ UNCHANGED clientVars
  \/ \E s \in JobIds, ok \in BOOLEAN : PostCreate(s, ok) /\ UNCHANGED clientVars
  \/ \E s \in JobIds : PostRespond(s) /\ UNCHANGED clientVars
  \/ \E j \in JobIds, ok \in BOOLEAN : ProcMarkProcessing(j, ok) /\ UNCHANGED clientVars
  \/ \E j \in JobIds, r \in ExtOutcomes : ExtRespond(j, r) /\ UNCHANGED clientVars
  \/ \E j \in JobIds, ok \in BOOLEAN : ProcWriteCompleted(j, ok) /\ UNCHANGED clientVars
  \/ \E j \in JobIds, ok \in BOOLEAN : ProcReread(j, ok) /\ UNCHANGED clientVars
  \/ \E j \in JobIds, ok \in BOOLEAN : ProcWriteFailed(j, ok) /\ UNCHANGED clientVars
  \/ \E id \in JobIds, ok \in BOOLEAN : StatusRequest(id, ok) /\ UNCHANGED clientVars
  \/ \E s \in JobIds : ClientPoll(s) /\ UNCHANGED clientVars
  \/ \E d \in TimerSteps :
       timerFires < MaxTimerFires /\ TimerFire(d) /\ UNCHANGED clientVars
  \/ \E c \in sweeps, ok \in BOOLEAN : SweepFinish(c, ok) /\ UNCHANGED clientVars

Spec == Init /\ [][Next]_vars

FairSpec == Spec /\ \A s \in JobIds : WF_vars(PostRespond(s) /\ UNCHANGED clientVars)

\* The pages with the server behind them: the store can fail the insert,
\* the webhook answers with a document, with JSON that has no html, with an
\* error status, or not at all.
PageExtOutcomes ==
  {HttpResponse(200, BodyJsonDoc), HttpResponse(200, BodyJsonNoHtml), HttpResponse(500, <<>>)}

\* A chat message is waiting for its reply.
ReplyPending == \E r \in JobIds : cliPc[r] \in {"submitted", "polling", "sleeping"}

PageInit ==
  /\ now = BootTime
  /\ timerFires = 0
  /\ store = [j \in PageJobIds |-> NoJob]
  /\ subPc = [s \in PageJobIds |-> "idle"]
  /\ subPrompt = [s \in PageJobIds |-> ""]
  /\ subResp = [s \in PageJobIds |-> NoResp]
  /\ started = [j \in PageJobIds |-> 0]
  /\ procPc = [j \in PageJobIds |-> "idle"]
  /\ procErr = [j \in PageJobIds |-> None]
  /\ procUpd = [j \in PageJobIds |-> NoUpd]
  /\ qResp = NoQuery
  /\ lastCleanupTime = 0
  /\ sweeps = {}
  /\ cliPc = [s \in PageJobIds |-> "none"]
  /\ attempts = [s \in PageJobIds |-> 0]
  /\ shown = [s \in PageJobIds |-> ""]
  /\ pageHtml = None
  /\ messages = <<>>
  /\ currentMessages = [s \in PageJobIds |-> <<>>]

PageNext ==
  \/ \E p \in PromptInputs : HomeSubmit(p)
  \/ HomeResponse
  \/ \E ok \in BOOLEAN : fetchJob(ok)
  \/ \E s \in JobIds, p \in PromptInputs : ~ReplyPending /\ handleMessageSubmit(s, p)
  \/ \E s \in JobIds : MessageResponse(s)
  \/ \E s \in JobIds, ok \in BOOLEAN : \E a \in PollAnswers(s) : PollAnswer(s, a, ok)
  \/ \E s \in JobIds : PollWake(s)
  \/ \E s \in PageJobIds, ok \in BOOLEAN : PostCreate(s, ok) /\ UNCHANGED clientVars
  \/ \E s \in PageJobIds : PostRespond(s) /\ UNCHANGED clientVars
  \/ \E j \in PageJobIds : ProcMarkProcessing(j, TRUE) /\ UNCHANGED clientVars
  \/ \E j \in PageJobIds, r \in PageExtOutcomes : ExtRespond(j, r) /\ UNCHANGED clientVars
  \/ \E j \in PageJobIds : ProcWriteCompleted(j, TRUE) /\ UNCHANGED clientVars
  \/ \E j \in PageJobIds : ProcReread(j, TRUE) /\ UNCHANGED clientVars
  \/ \E j \in PageJobIds : ProcWriteFailed(j, TRUE) /\ UNCHANGED clientVars

\* PageSpec: the user sends a chat message only when the previous one has
\* been replied to.
PageSpec == PageInit /\ [][PageNext]_vars

\* HungSpec: the user sends messages at any time, and the webhook never
\* answers.
HungNext ==
  \/ \E p \in PromptInputs : HomeSubmit(p)
  \/ HomeResponse
  \/ \E ok \in BOOLEAN : fetchJob(ok)
  \/ \E s \in JobIds, p \in PromptInputs : handleMessageSubmit(s, p)
  \/ \E s \in JobIds : MessageResponse(s)
  \/ \E s \in JobIds, ok \in BOOLEAN : \E a \in PollAnswers(s) : PollAnswer(s, a, ok)
  \/ \E s \in JobIds : PollWake(s)
  \/ \E s \in PageJobIds, ok \in BOOLEAN : PostCreate(s, ok) /\ UNCHANGED clientVars
  \/ \E s \in PageJobIds : PostRespond(s) /\ UNCHANGED clientVars
  \/ \E j \in PageJobIds, ok \in BOOLEAN : ProcMarkProcessing(j, ok) /\ UNCHANGED clientVars

HungSpec == PageInit /\ [][HungNext]_vars

\* SweepSpec: the timer over several firings.  The table outlives the
\* server process: when the route module is loaded it can hold a record that
\* an earlier process created (slot LeftoverSlot), pending, completed or
\* failed, exactly seven days old at the first firing or one period older.
LeftoverSlot == 0

LeftoverCreated == {BootTime - RetentionMinutes, BootTime + TICK - RetentionMinutes}

LeftoverJobs ==
  LET fresh(t) == NewJob(LeftoverSlot, "X", t)
  IN  UNION {{fresh(t),
              Merge(fresh(t), CompletedHtmlUpdate(LeftoverSlot, BodyMarkup)),
              Merge(fresh(t), FailedUpdate(LeftoverSlot, "X", "fetch failed", t))}
               : t \in LeftoverCreated}

SweepInit ==
  /\ now = BootTime
  /\ timerFires = 0
  /\ \E old \in LeftoverJobs :
       store = [j \in PageJobIds |-> IF j = LeftoverSlot THEN old ELSE NoJob]
  /\ subPc = [s \in PageJobIds |-> "idle"]
  /\ subPrompt = [s \in PageJobIds |-> ""]
  /\ subResp = [s \in PageJobIds |-> NoResp]
  /\ started = [j \in PageJobIds |-> 0]
  /\ procPc = [j \in PageJobIds |-> "idle"]
  /\ procErr = [j \in PageJobIds |-> None]
  /\ procUpd = [j \in PageJobIds |-> NoUpd]
  /\ qResp = NoQuery
  /\ lastCleanupTime = 0
  /\ sweeps = {}
  /\ cliPc = [s \in PageJobIds |-> "none"]
  /\ attempts = [s \in PageJobIds |-> 0]
  /\ shown = [s \in PageJobIds |-> ""]
  /\ pageHtml = None
  /\ messages = <<>>
  /\ currentMessages = [s \in PageJobIds |-> <<>>]

\* The timer fires every TICK minutes.  A step of d > TICK stands for the
\* firing that follows d / TICK - 1 firings that found less than
\* CLEANUP_INTERVAL elapsed and did nothing.
SweepSteps == {TICK, CLEANUP_INTERVAL, CLEANUP_INTERVAL + TICK}

SkippedFiringsIdle(d) == d = TICK \/ (now + d - TICK) - lastCleanupTime <= CLEANUP_INTERVAL

SweepNext ==
  \/ \E s \in JobIds, p \in PromptInputs : PostReceive(s, p) /\ UNCHANGED clientVars
  \/ \E s \in JobIds : PostCreate(s, TRUE) /\ UNCHANGED clientVars
  \/ \E s \in JobIds : PostRespond(s) /\ UNCHANGED clientVars
  \/ \E j \in JobIds : ProcMarkProcessing(j, TRUE) /\ UNCHANGED clientVars
  \/ \E j \in JobIds, r \in PageExtOutcomes : ExtRespond(j, r) /\ UNCHANGED clientVars
  \/ \E j \in JobIds : ProcWriteCompleted(j, TRUE) /\ UNCHANGED clientVars
  \/ \E j \in JobIds : ProcReread(j, TRUE) /\ UNCHANGED clientVars
  \/ \E j \in JobIds : ProcWriteFailed(j, TRUE) /\ UNCHANGED clientVars
  \/ \E d \in SweepSteps :
       /\ timerFires < MaxSweepFires
       /\ SkippedFiringsIdle(d)
       /\ TimerFire(d) /\ UNCHANGED clientVars
  \/ \E c \in sweeps, ok \in BOOLEAN : SweepFinish(c, ok) /\ UNCHANGED clientVars

SweepSpec == SweepInit /\ [][SweepNext]_vars

\* ------------------------------------------------------------------ claims
Rank(status) ==
  CASE status = "pending" -> 0
    [] status = "processing" -> 1
    [] status \in {"completed", "failed"} -> 2

Terminal == {"completed", "failed"}

\* C1: in every step, whatever it interleaves (a processJob write, a status
\* read, a sweep), the stored status of a job that stays stored does not move
\* backward along pending -> processing -> {completed | failed}, and a status
\* that is completed or failed is not changed.
C1_StatusMonotonic ==
  [][\A j \in JobIds :
       (Stored(store, j) /\ Stored(store', j)) =>
          /\ Rank(store[j].status) <= Rank(store'[j].status)
          /\ (store[j].status \in Terminal => store'[j].status = store[j].status)]_vars

\* A job that went through processJob to completed, read by the status
\* endpoint after a sweep has run.
C1_Witness ==
  \E j \in JobIds :
    /\ procPc[j] = "done" /\ Stored(store, j) /\ store[j].status = "completed"
    /\ lastCleanupTime > 0
    /\ qResp.method = "POST" /\ qResp.id = j /\ qResp.resp.status = "completed"

\* C2: once processJob has returned after catching an exception of the
\* webhook call or of the interpretation of its response, the stored status
\* of its job (if the job is still stored) is failed, not pending or
\* processing.
C2_FailedAfterException ==
  \A j \in JobIds :
    (procPc[j] = "done" /\ procErr[j] # None /\ Stored(store, j))
      => store[j].status = "failed"

\* C3: every stored job whose status is completed has a non-empty html and
\* no error.
C3_CompletedHasHtml ==
  \A j \in JobIds :
    (Stored(store, j) /\ store[j].status = "completed")
      => (Truthy(store[j].html) /\ store[j].error = None)

\* C4: every stored job whose status is failed has a non-empty error and a
\* non-empty html.
C4_FailedHasErrorAndHtml ==
  \A j \in JobIds :
    (Stored(store, j) /\ store[j].status = "failed")
      => (TruthyStr(store[j].error) /\ Truthy(store[j].html))

\* A job marked failed because the webhook answered with a body that is
\* neither JSON nor markup.
C4_Witness ==
  \E j \in JobIds :
    /\ Stored(store, j) /\ store[j].status = "failed" /\ procPc[j] = "done"
    /\ store[j].error = Some("Invalid response format")

\* C5: every stored job whose status is processing, completed or failed has
\* a non-null html column.
C5_HtmlStoredAfterPending ==
  \A j \in JobIds :
    (Stored(store, j) /\ store[j].status \in {"processing", "completed", "failed"})
      => store[j].html # None

\* C6: when the webhook answers with a success status, processJob goes on to
\* mark the job completed exactly when the body parses as JSON with an html
\* member, or does not parse and looks like markup; otherwise it goes to mark
\* the job failed with 'Invalid response format'.
HasContent(body) ==
  LET parsed == JSONParse(body)
  IN  \/ parsed.ok /\ parsed.val.type = "object" /\ parsed.val.html # None
      \/ ~parsed.ok /\ isHtmlContent(body)

C6_CompletedOnlyForContent ==
  [][\A j \in JobIds : \A r \in ExtOutcomes :
       (ExtRespond(j, r) /\ ResponseOk(r)) =>
          IF HasContent(r.body)
            THEN procPc'[j] = "writeCompleted"
            ELSE /\ procPc'[j] = "reread"
                 /\ procErr'[j] = Some("Invalid response format")]_vars

\* C7: processJob is called at most once per job id; it has been called
\* exactly when the submission has answered with that job id (so after
\* createDocumentJob returned the record), and never for a submission whose
\* createDocumentJob failed.
C7_ProcessJobOncePerJob ==
  \A s \in JobIds :
    /\ started[s] <= 1
    /\ (started[s] = 1) <=> (subPc[s] = "responded" /\ subResp[s].jobId = Some(s))
    /\ (subPc[s] = "createFailed" \/ (subPc[s] = "responded" /\ subResp[s].jobId = None))
         => (started[s] = 0 /\ procPc[s] = "idle")

\* One submission whose job was created and processed to the end, another
\* whose createDocumentJob failed and was answered.
C7_Witness ==
  \E s, r \in JobIds :
    /\ started[s] = 1 /\ procPc[s] = "done"
    /\ subPc[r] = "responded" /\ subResp[r].jobId = None /\ started[r] = 0

\* C8: whether or not the webhook ever answers, a submission whose
\* createDocumentJob returned the record gets its response, at a moment when
\* processJob is still before the end of its webhook call and the job is
\* stored as pending or processing.
C8_ResponseWithoutWaiting ==
  \A s \in JobIds :
    (subPc[s] = "created") ~>
       (/\ subPc[s] = "responded"
        /\ procPc[s] \in {"markProcessing", "fetching"}
        /\ Stored(store, s) /\ store[s].status \in {"pending", "processing"})

\* A submission that has been answered while processJob waits for the webhook.
C8_Witness ==
  \E s \in JobIds :
    /\ subPc[s] = "responded" /\ subResp[s].jobId = Some(s)
    /\ procPc[s] = "fetching" /\ Stored(store, s) /\ store[s].status = "processing"

\* C9: a status request of the client poller for the jobId of a successful
\* submission, made while the job is stored, is answered with the job's
\* status.
C9_PollReachesStatusEndpoint ==
  (qResp.method = PollMethod /\ Stored(store, qResp.id))
    => (qResp.resp.http = 200 /\ qResp.resp.status = store[qResp.id].status)

\* C10: a status request for a job id with no stored record (never created,
\* or deleted by the sweeper) is answered 404 with status not_found, without
\* html or result.
C10_MissingJobIsNotFound ==
  (qResp.method = "POST" /\ ~Stored(store, qResp.id))
    => /\ qResp.resp.http = 404
       /\ qResp.resp.status = "not_found"
       /\ qResp.resp.html = None /\ qResp.resp.result = None

\* A status request for a job that was created and has since been deleted
\* by the sweeper.
C10_Witness ==
  /\ qResp.method = "POST" /\ qResp.id \in JobIds
  /\ started[qResp.id] = 1 /\ ~Stored(store, qResp.id)
  /\ qResp.resp.status = "not_found"

\* C11: a status request is answered not_found only when the store holds no
\* record with that job id.
C11_NotFoundOnlyWhenAbsent ==
  (qResp.method = "POST" /\ qResp.resp.status = "not_found")
    => ~Stored(store, qResp.id)

\* C12: every step that answers a status request, whatever the job id and
\* the state of the store, leaves every job record as it was.
C12_StatusQueryReadOnly ==
  [][(qResp'.method # "none") => store' = store]_vars

\* A status request answered for a job that processJob has marked processing.
C12_Witness ==
  /\ qResp.method = "POST" /\ Stored(store, qResp.id)
  /\ store[qResp.id].status = "processing" /\ qResp.resp.status = "processing"

\* C13: across a step in which time passes and no job record is written, the
\* status endpoint's answer for a stored job (HTTP status, status, html,
\* projectId, error, result) is the same after the step as before it.
C13_StatusPayloadIdempotent ==
  [][\A j \in JobIds :
       (Stored(store, j) /\ store' = store) =>
          RouteStatus("POST", j, store', TRUE, now') = RouteStatus("POST", j, store, TRUE, now)]_vars

C15_ClientRendersFinal ==
  (/\ cliPc[HomeSlot] \in {"loaded", "notFound"}
   /\ \A s \in JobIds : cliPc[s] = "none"
   /\ Stored(store, HomeSlot) /\ store[HomeSlot].status \in Terminal)
    => pageHtml = store[HomeSlot].html

C17_PollLoopBounded ==
  /\ [](\A s \in JobIds :
         /\ (cliPc[s] = "polling" => attempts[s] < maxAttempts)
         /\ ((cliPc[s] = "done" /\ shown[s] = MsgTimeout) =>
               (Stored(store, s) /\ store[s].status \in {"pending", "processing"})))
  /\ [][\A s \in JobIds :
          /\ ((cliPc[s] = "sleeping" /\ cliPc'[s] = "done") =>
                (attempts[s] = maxAttempts /\ shown'[s] = MsgTimeout))
          /\ ((cliPc[s] = "sleeping" /\ attempts[s] = maxAttempts) =>
                cliPc'[s] \in {"sleeping", "done"})
          /\ (cliPc[s] = "done" => cliPc'[s] = "done")
          /\ ((cliPc[s] \in {"polling", "sleeping"} /\ cliPc'[s] # cliPc[s]) =>
                store' = store)]_vars

\* A loop that has timed out while its job is stored as processing.
C17_Witness ==
  \E s \in JobIds :
    /\ cliPc[s] = "done" /\ shown[s] = MsgTimeout
    /\ Stored(store, s) /\ store[s].status = "processing"

\* C18: a poll-loop turn whose status request fails (the fetch rejects, or
\* the response is not OK) ends the loop with the error message, and the
\* ended loop sends no further request.
C18_FailedRequestStopsLoop ==
  [][\A s \in JobIds :
       /\ \A ok \in BOOLEAN : \A a \in PollAnswers(s) :
            (PollAnswer(s, a, ok) /\ ResponseNotOk(a)) =>
               (cliPc'[s] = "done" /\ shown'[s] = MsgCheckError)
       /\ ((cliPc[s] = "done" /\ shown[s] = MsgCheckError) =>
             (cliPc'[s] = "done" /\ shown'[s] = MsgCheckError))]_vars

\* A loop ended by a failed status request while its job is stored.
C18_Witness ==
  \E s \in JobIds :
    /\ cliPc[s] = "done" /\ shown[s] = MsgCheckError
    /\ Stored(store, s) /\ procPc[s] = "done"

\* C19: on the document page at most one poll loop is running at any time.
C19_OnePollLoop ==
  Cardinality({s \in JobIds : cliPc[s] \in {"polling", "sleeping"}}) <= 1

\* C20: the prompt of every stored job is the prompt its submission passed
\* to createDocumentJob, whatever processJob has written since.
C20_PromptUnchanged ==
  \A j \in JobIds : Stored(store, j) => store[j].prompt = subPrompt[j]

\* One job written to completed and another written to failed.
C20_Witness ==
  \E j, k \in JobIds :
    /\ Stored(store, j) /\ store[j].status = "completed" /\ store[j].prompt = "X"
    /\ Stored(store, k) /\ store[k].status = "failed" /\ store[k].prompt = "X"

\* C21: every step that changes a record which stays stored (a successful
\* updateDocumentJob) leaves its job_id and created_at as they were and sets
\* its updated_at to the time of the update.
C21_UpdateRefreshesUpdatedAt ==
  [][\A j \in JobIds :
       (Stored(store, j) /\ Stored(store', j) /\ store'[j] # store[j]) =>
          /\ store'[j].job_id = store[j].job_id
          /\ store'[j].created_at = store[j].created_at
          /\ store'[j].updated_at = now']_vars

\* A run of cleanupOldJobs starts in this step: its cutoff joins sweeps.
SweepStarts(c) == c \in sweeps' /\ c \notin sweeps

\* C22: a firing of the timer starts cleanupOldJobs only when more than
\* CLEANUP_INTERVAL has passed since its last run (the last one that
\* returned, and any one still in flight), with a cutoff 7 days before the
\* firing; records disappear only in a step that ends a run, and they are
\* exactly the records created before that run's cutoff (none when the
\* delete request failed), so every deleted record is more than 7 days old,
\* whatever its status.
C22_SweepGatedAndRetention ==
  [][/\ \A c \in sweeps' :
          SweepStarts(c) =>
            /\ c = now' - RetentionMinutes
            /\ now' - lastCleanupTime > CLEANUP_INTERVAL
            /\ \A b \in sweeps : c - b > CLEANUP_INTERVAL
     /\ (\E j \in PageJobIds : Stored(store, j) /\ ~Stored(store', j)) =>
          \E c \in sweeps :
            /\ c \notin sweeps'
            /\ store' = DeleteOlderThan(store, c, TRUE)
            /\ \A j \in PageJobIds :
                 (Stored(store, j) /\ ~Stored(store', j)) =>
                    now - store[j].created_at > RetentionMinutes]_vars

\* C28: at most one cleanupOldJobs call is in flight at any time, and a call
\* starts more than CLEANUP_INTERVAL after the start of every earlier one.
C28_OneSweepInFlight ==
  /\ [](Cardinality(sweeps) <= 1)
  /\ [][\A c \in sweeps' : SweepStarts(c) => \A b \in sweeps : c - b > CLEANUP_INTERVAL]_vars

\* C23: a step that changes the status, html, result or error of a record
\* that stays stored is a write of the processJob call started for that job
\* (its processing, completed or failed update) and of nothing else: not of
\* a submission, a status request, the timer, a sweep, or the processJob
\* call of another job.
ProcessorFields(rec) == <<rec.status, rec.html, rec.result, rec.error>>

C23_OnlyProcessorWrites ==
  [][\A j \in JobIds :
       (/\ Stored(store, j) /\ Stored(store', j)
        /\ ProcessorFields(store'[j]) # ProcessorFields(store[j])) =>
          /\ started[j] = 1
          /\ procPc[j] \in {"markProcessing", "writeCompleted", "writeFailed"}
          /\ procPc'[j] # procPc[j]
          /\ \A k \in JobIds \ {j} : procPc'[k] = procPc[k]
          /\ subPc' = subPc /\ qResp' = NoQuery
          /\ timerFires' = timerFires /\ sweeps' = sweeps]_vars

\* One job completed by its processJob while another, whose processing
\* update failed, is still pending and waits for the webhook; a sweep has run.
C23_Witness ==
  \E j, k \in JobIds :
    /\ j # k /\ lastCleanupTime > 0
    /\ Stored(store, j) /\ store[j].status = "completed" /\ procPc[j] = "done"
    /\ Stored(store, k) /\ store[k].status = "pending" /\ procPc[k] = "fetching"

C25_ProcessingWriteBestEffort ==
  [][\A j \in JobIds :
       /\ (procPc[j] = "markProcessing" /\ procPc'[j] # procPc[j]) =>
             (procPc'[j] = "fetching" /\ procErr'[j] = None)
       /\ (procPc[j] = "fetching" /\ procPc'[j] # procPc[j]) =>
             procPc'[j] \in {"writeCompleted", "reread"}
       /\ (/\ procPc[j] \in {"writeCompleted", "writeFailed"}
           /\ Stored(store, j) /\ store[j].status = "pending"
           /\ Stored(store', j) /\ store'[j] # store[j]) =>
             (store'[j].status = procUpd[j].status /\ store'[j].status \in Terminal)]_vars

\* The processing update failed, the webhook was called and has answered,
\* and the terminal update is about to reach a record that is still pending:
\* one sending its completed update, another its failed update.
C25_Witness ==
  \E j, k \in JobIds :
    /\ procPc[j] = "writeCompleted" /\ Stored(store, j) /\ store[j].status = "pending"
    /\ procPc[k] = "writeFailed" /\ Stored(store, k) /\ store[k].status = "pending"

\* C26: a stored job that was marked failed after its webhook call failed
\* (the fetch rejected, or the response had a non-success status) has as
\* error the description of that failure and as html the fallback document
\* made from its stored prompt and that error, the same document in result;
\* a status request for it is answered failed, with that error and that html.
ExternalFailures ==
  {"fetch failed"} \cup {"Server responded with status: " \o ToString(c) : c \in ErrorStatuses}

C26_ExternalFailureRecorded ==
  \A j \in JobIds :
    (/\ Stored(store, j) /\ store[j].status = "failed"
     /\ procErr[j] # None /\ procErr[j][1] \in ExternalFailures) =>
       /\ store[j].error = procErr[j]
       /\ store[j].html # None /\ store[j].html[1].kind = "fallback"
       /\ store[j].html[1].prompt = store[j].prompt
       /\ store[j].html[1].error = procErr[j][1]
       /\ store[j].result # None /\ store[j].result[1].html = store[j].html
       /\ (qResp.method = "POST" /\ qResp.id = j) =>
             /\ qResp.resp.status = "failed"
             /\ qResp.resp.error = store[j].error
             /\ qResp.resp.html = store[j].html

\* C27: the answer to a status request for a stored job that is pending,
\* processing or failed carries a non-empty html: the stored one, or, when
\* that is null or empty, the loading document (pending, processing) or the
\* fallback document (failed) made from the job's prompt.
C27_StatusResponseHasHtml ==
  (/\ qResp.method = "POST" /\ Stored(store, qResp.id)
   /\ store[qResp.id].status \in {"pending", "processing", "failed"}) =>
      /\ Truthy(qResp.resp.html)
      /\ IF Truthy(store[qResp.id].html)
           THEN qResp.resp.html = store[qResp.id].html
           ELSE /\ qResp.resp.html[1].kind =
                     (IF store[qResp.id].status = "failed" THEN "fallback" ELSE "loading")
                /\ qResp.resp.html[1].prompt = store[qResp.id].prompt

\* C29: a job whose processJob was started and whose record is gone (the
\* sweeper deleted it) has no record after any step, whatever update its
\* processJob sends; a catch block that re-reads it returns without sending
\* the failed update; a status request for it is answered not_found.
C29_DeletedNeverReappears ==
  [][\A j \in JobIds :
       (started[j] = 1 /\ ~Stored(store, j)) =>
          /\ ~Stored(store', j)
          /\ (procPc[j] = "reread" /\ procPc'[j] # procPc[j]) => procPc'[j] = "done"
          /\ (qResp'.method = "POST" /\ qResp'.id = j) => qResp'.resp = NotFoundResponse]_vars

\* The record was deleted while processJob was between the catch block's
\* re-read and its failed update, and a status request for the job has just
\* been answered not_found.
C29_Witness ==
  \E j \in JobIds :
    /\ started[j] = 1 /\ ~Stored(store, j) /\ procPc[j] = "writeFailed"
    /\ qResp.method = "POST" /\ qResp.id = j /\ qResp.resp = NotFoundResponse

\* C30: every user message in the chat list is still in the list, at its
\* place, after a step that ends a poll loop: the reply written by the loop
\* of one submission does not remove the user message of another.
UserMessages == {i \in 1 .. Len(messages) : messages[i].role = "user"}

C30_UserMessagesKept ==
  [][\A s \in JobIds :
       (cliPc[s] \in {"polling", "sleeping"} /\ cliPc'[s] = "done") =>
          \A i \in UserMessages : i <= Len(messages') /\ messages'[i] = messages[i]]_vars

====
